---------------------------- MODULE Spec2Model ----------------------------
(***************************************************************************)
(* Model of the trade executor of the copy-trading bot                     *)
(* (python/src/services/trader/trade_executor.py): the TradeRecord store,  *)
(* the aggregation buffer, the release policy and the executor loop.       *)
(*                                                                         *)
(* Units.  Amounts (usdcSize) are integers in tenths of a USDC, prices are *)
(* integers in tenths (0..10 stands for 0.0..1.0), and the clock counts    *)
(* pacing sleeps (asyncio.sleep(0.3)); the aggregation window is given in  *)
(* the same clock unit.  averagePrice is kept as an exact fraction         *)
(* num/den, so the model does not round.                                   *)
(***************************************************************************)
EXTENDS Integers, Sequences, FiniteSets, TLC

(***************************************************************************)
(* Bounds of the model.                                                    *)
(***************************************************************************)
\* number of trade records the ingestion collaborator inserts in a run
MaxTrades == 2
\* last clock value; the pacing sleep is not taken beyond it
MaxTime == 3

(***************************************************************************)
(* Configuration (ENV) and module constants.                               *)
(***************************************************************************)
\* the values of ENV.USER_ADDRESSES a deployment can have, in configured order
AddressLists == {<<>>, <<"a1", "a2">>}
\* ENV.TRADE_AGGREGATION_WINDOW_SECONDS, in clock units
TRADE_AGGREGATION_WINDOW_SECONDS == 2
\* TRADE_AGGREGATION_MIN_TOTAL_USD = 1.0, in tenths of a USDC
TRADE_AGGREGATION_MIN_TOTAL_USD == 10

\* values the ingestion collaborator writes into a trade record
ConditionIds == {"c1"}
Assets == {"t1"}
\* <<usdcSize, price>> of BUY trades: size zero, two sizes below the minimum (two
\* trades of the larger one reach it exactly), and the minimum itself
BuyQuotes == {<<0, 8>>, <<4, 2>>, <<5, 8>>, <<10, 2>>}
\* <<usdcSize, price>> of SELL trades (the loop never reads the size of a SELL trade)
SellQuotes == {<<4, 2>>}
\* side, usdcSize and price of a trade record
TradeShapes ==
    {<<"BUY", q[1], q[2]>> : q \in BuyQuotes} \cup {<<"SELL", q[1], q[2]>> : q \in SellQuotes}

VARIABLES
    environ,        \* os.environ when the module is loaded: name -> string of characters
    USER_ADDRESSES, \* ENV.USER_ADDRESSES
    aggEnabled,     \* ENV.TRADE_AGGREGATION_ENABLED
    store,          \* the user-activity collections: sequence of trade records, _id = index
    buffer,         \* trade_aggregation_buffer, in dict insertion order
    is_running,     \* module flag is_running
    pc,             \* position of the trade_executor coroutine
    now,            \* time.time()
    trades,         \* fetched trades of this tick that are still to be handled
    ready,          \* ready_aggregations of this tick that are still to be dispatched
    cur,            \* the trade / aggregation whose dispatch is in progress
    orders,         \* post_order calls that returned, in call order
    markWrites,     \* per _id: number of update_one writes that marked it
    handed,         \* per _id: number of times the loop handed it to the buffer or to do_trading
    evals           \* aggregations evaluated as expired by the release policy, in order

vars == <<environ, USER_ADDRESSES, aggEnabled, store, buffer, is_running, pc, now, trades, ready, cur,
          orders, markWrites, handed, evals>>

(***************************************************************************)
(* Helpers on sequences of trade ids.                                      *)
(***************************************************************************)
Range(s) == {s[i] : i \in 1..Len(s)}

\* number of occurrences of x in s
Count(s, x) == Cardinality({i \in 1..Len(s) : s[i] = x})

\* dict.get(field, default) on a record that may lack the field
Get(rec, field, default) == IF field \in DOMAIN rec THEN rec[field] ELSE default

\* the value of dict.get(field) for an absent field
None == "None"

(***************************************************************************)
(* The phase / trading safety gate, run when the module is loaded.  A      *)
(* string of the environment is a sequence of one-character strings.       *)
(***************************************************************************)
\* the whitespace str.strip() removes (the model's alphabet has the blank only)
Whitespace == {" "}

RECURSIVE LStrip(_)
LStrip(s) == IF s # <<>> /\ Head(s) \in Whitespace THEN LStrip(Tail(s)) ELSE s

RECURSIVE RStrip(_)
RStrip(s) ==
    IF s # <<>> /\ s[Len(s)] \in Whitespace THEN RStrip(SubSeq(s, 1, Len(s) - 1)) ELSE s

\* str.strip()
strip(s) == RStrip(LStrip(s))

\* str.lower() on one character (the upper-case letters of the model's alphabet)
LowerChar(c) ==
    CASE c = "T" -> "t" [] c = "R" -> "r" [] c = "U" -> "u" [] c = "E" -> "e" [] OTHER -> c

\* str.lower()
lower(s) == [i \in 1..Len(s) |-> LowerChar(s[i])]

\* os.getenv(name, default)
getenv(env, name, default) == Get(env, name, default)

_env_bool(env, name, default) ==
    lower(strip(getenv(env, name, default))) = <<"t", "r", "u", "e">>

_env_str(env, name, default) == strip(getenv(env, name, default))

\* module variable ENABLE_TRADING
ENABLE_TRADING == _env_bool(environ, "ENABLE_TRADING", <<"f", "a", "l", "s", "e">>)

\* module variable APP_PHASE
APP_PHASE == _env_str(environ, "APP_PHASE", <<>>)

\* mutant of ModuleLoads: the phase is not looked at
ModuleLoads_PhaseIgnored(enable, phase) == enable

\* neither "if not ENABLE_TRADING: raise" nor
\* "if APP_PHASE and APP_PHASE != '4': raise" fires
ModuleLoads(enable, phase) == enable /\ ~(phase # <<>> /\ phase # <<"4">>)

\* values of the two environment variables: absent is modelled by leaving the name out
EnableTradingValues ==
    {<<" ", "T", "r", "U", "E", " ">>, <<"f", "a", "l", "s", "e">>, <<"1">>,
     <<"t", "r", " ", "u", "e">>}

AppPhaseValues == {<<" ">>, <<" ", "4", " ">>, <<"3">>, <<"4", "0">>}

\* the environments the module can be loaded in
Environments ==
    {[ENABLE_TRADING |-> e, APP_PHASE |-> p] : e \in EnableTradingValues, p \in AppPhaseValues}
    \cup {[ENABLE_TRADING |-> e] : e \in EnableTradingValues}
    \cup {[APP_PHASE |-> p] : p \in AppPhaseValues}
    \cup {[HOME |-> <<"x">>]}

\* the environment of a live deployment
LiveEnvironment == [ENABLE_TRADING |-> <<"t", "r", "u", "e">>, APP_PHASE |-> <<"4">>]

(***************************************************************************)
(* The store.                                                              *)
(***************************************************************************)
\* mutant of Unprocessed: the filter does not look at botExcutedTime
Unprocessed_IgnoresExecuted(rec) == rec.bot = FALSE

\* the filter of collection.find: type TRADE, bot False, botExcutedTime 0
Unprocessed(rec) == rec.bot = FALSE /\ rec.botExcutedTime = 0

\* collection.find(...) of one address, in store order
FindUnprocessed(st, address) ==
    SelectSeq([i \in 1..Len(st) |-> i],
              LAMBDA id : st[id].userAddress = address /\ Unprocessed(st[id]))

\* mutant of ReadFrom: only the collection of the address at k is read
ReadFrom_FirstAddressOnly(st, k) ==
    IF k > Len(USER_ADDRESSES) THEN <<>> ELSE FindUnprocessed(st, USER_ADDRESSES[k])

RECURSIVE ReadFrom(_, _)
ReadFrom(st, k) ==
    IF k > Len(USER_ADDRESSES) THEN <<>>
    ELSE FindUnprocessed(st, USER_ADDRESSES[k]) \o ReadFrom(st, k + 1)

\* mutant of read_temp_trades: the unprocessed trades in store order, whatever their address
read_temp_trades_StoreOrder(st) ==
    SelectSeq([i \in 1..Len(st) |-> i], LAMBDA id : Unprocessed(st[id]))

\* read_temp_trades: the unprocessed trades of every address, in address order
read_temp_trades(st) == ReadFrom(st, 1)

\* mutant of MarkExecuted: the write before the dispatch is left out
MarkExecuted_Skipped(st, id) == st

\* update_one({_id}, {$set: {botExcutedTime: 1}})
MarkExecuted(st, id) == [st EXCEPT ![id].botExcutedTime = 1]

\* mutant of MarkBot: the write of the discard is left out
MarkBot_Skipped(st, id) == st

\* update_one({_id}, {$set: {bot: True}})
MarkBot(st, id) == [st EXCEPT ![id].bot = TRUE]

\* mutant of MarkAllExecuted: the records of a batch are not written
MarkAllExecuted_Skipped(st, ids) == st

RECURSIVE MarkAllExecuted(_, _)
\* for trade in agg["trades"]: update_one(... botExcutedTime 1)
MarkAllExecuted(st, ids) ==
    IF ids = <<>> THEN st ELSE MarkAllExecuted(MarkExecuted(st, Head(ids)), Tail(ids))

RECURSIVE MarkAllBot(_, _)
\* for trade in agg["trades"]: update_one(... bot True)
MarkAllBot(st, ids) ==
    IF ids = <<>> THEN st ELSE MarkAllBot(MarkBot(st, Head(ids)), Tail(ids))

\* the write counters after one update_one for every entry of ids
CountWrites(mw, ids) == [i \in 1..Len(mw) |-> mw[i] + Count(ids, i)]

(***************************************************************************)
(* The aggregation buffer.                                                 *)
(***************************************************************************)
get_aggregation_key(trade) ==
    trade.userAddress \o ":" \o Get(trade, "conditionId", "") \o ":"
        \o Get(trade, "asset", "") \o ":" \o Get(trade, "side", "BUY")

\* position of key in the buffer, 0 when absent (trade_aggregation_buffer.get(key))
BufferIndex(buf, key) ==
    IF \E i \in 1..Len(buf) : buf[i].key = key
    THEN CHOOSE i \in 1..Len(buf) : buf[i].key = key
    ELSE 0

RECURSIVE TotalValue_Unweighted(_, _)
\* mutant of TotalValue: the prices are summed without their weights
TotalValue_Unweighted(st, ids) ==
    IF ids = <<>> THEN 0
    ELSE st[Head(ids)].price + TotalValue_Unweighted(st, Tail(ids))

RECURSIVE TotalValue(_, _)
\* sum(usdcSize * price for t in existing["trades"])
TotalValue(st, ids) ==
    IF ids = <<>> THEN 0
    ELSE Get(st[Head(ids)], "usdcSize", 0) * Get(st[Head(ids)], "price", 0)
         + TotalValue(st, Tail(ids))

\* total_value / totalUsdcSize if totalUsdcSize > 0 else 0
WeightedAverage(totalValue, totalUsdcSize) ==
    IF totalUsdcSize > 0
    THEN [num |-> totalValue, den |-> totalUsdcSize]
    ELSE [num |-> 0, den |-> 1]

\* mutant of MergeTrade: the merge also restarts the window
MergeTrade_RestartsWindow(st, agg, id, t) ==
    LET ids == Append(agg.trades, id)
        total == agg.totalUsdcSize + Get(st[id], "usdcSize", 0)
    IN [agg EXCEPT !.trades = ids,
                   !.totalUsdcSize = total,
                   !.averagePrice = WeightedAverage(TotalValue(st, ids), total),
                   !.firstTradeTime = t,
                   !.lastTradeTime = t]

\* the branch "if existing": append and recompute
MergeTrade(st, agg, id, t) ==
    LET ids == Append(agg.trades, id)
        total == agg.totalUsdcSize + Get(st[id], "usdcSize", 0)
    IN [agg EXCEPT !.trades = ids,
                   !.totalUsdcSize = total,
                   !.averagePrice = WeightedAverage(TotalValue(st, ids), total),
                   !.lastTradeTime = t]

\* the branch "else": a new entry
NewAggregation(st, id, t) ==
    [key |-> get_aggregation_key(st[id]),
     userAddress |-> st[id].userAddress,
     conditionId |-> Get(st[id], "conditionId", ""),
     asset |-> Get(st[id], "asset", ""),
     side |-> Get(st[id], "side", "BUY"),
     trades |-> <<id>>,
     totalUsdcSize |-> Get(st[id], "usdcSize", 0),
     averagePrice |-> [num |-> Get(st[id], "price", 0), den |-> 1],
     firstTradeTime |-> t,
     lastTradeTime |-> t]

add_to_aggregation_buffer(st, buf, id, t) ==
    LET i == BufferIndex(buf, get_aggregation_key(st[id]))
    IN IF i > 0
       THEN [buf EXCEPT ![i] = MergeTrade(st, buf[i], id, t)]
       ELSE Append(buf, NewAggregation(st, id, t))

(***************************************************************************)
(* The release policy, get_ready_aggregated_trades.                        *)
(***************************************************************************)
\* mutant of Expired: a batch whose age equals the window is not yet expired
Expired_Strict(agg, t) == t - agg.firstTradeTime > TRADE_AGGREGATION_WINDOW_SECONDS

\* time_elapsed >= window_ms
Expired(agg, t) == t - agg.firstTradeTime >= TRADE_AGGREGATION_WINDOW_SECONDS

\* mutant of MeetsMinimum: a total equal to the minimum does not meet it
MeetsMinimum_Strict(agg) == agg.totalUsdcSize > TRADE_AGGREGATION_MIN_TOTAL_USD

\* agg["totalUsdcSize"] >= TRADE_AGGREGATION_MIN_TOTAL_USD
MeetsMinimum(agg) == agg.totalUsdcSize >= TRADE_AGGREGATION_MIN_TOTAL_USD

\* the list returned
ReadyOf(buf, t) == SelectSeq(buf, LAMBDA agg : Expired(agg, t) /\ MeetsMinimum(agg))

\* the expired aggregations below the minimum, skipped
SkippedOf(buf, t) == SelectSeq(buf, LAMBDA agg : Expired(agg, t) /\ ~MeetsMinimum(agg))

\* mutant of RemainingOf: the whole buffer is cleared
RemainingOf_Cleared(buf, t) == <<>>

\* the buffer after "del trade_aggregation_buffer[key]" for keys_to_remove
RemainingOf(buf, t) == SelectSeq(buf, LAMBDA agg : ~Expired(agg, t))

RECURSIVE AllTrades(_)
\* the trades of a list of aggregations, one entry per update_one
AllTrades(aggs) == IF aggs = <<>> THEN <<>> ELSE Head(aggs).trades \o AllTrades(Tail(aggs))

\* the outcome recorded for an expired aggregation
Evaluation(agg, t) ==
    [agg |-> agg, at |-> t, outcome |-> IF MeetsMinimum(agg) THEN "ready" ELSE "discard"]

EvaluationsOf(buf, t) ==
    LET expired == SelectSeq(buf, LAMBDA agg : Expired(agg, t))
    IN [i \in 1..Len(expired) |-> Evaluation(expired[i], t)]

(***************************************************************************)
(* Dispatch: do_trading and do_aggregated_trading.                         *)
(***************************************************************************)
\* "buy" if side == "BUY" else "sell"
ActionOf(side) == IF side = "BUY" THEN "buy" ELSE "sell"

\* mutant of SingleOrder: the order carries the price where the size belongs
SingleOrder_SizeFromPrice(st, id) ==
    [kind |-> "single", action |-> ActionOf(Get(st[id], "side", None)),
     side |-> Get(st[id], "side", None),
     usdcSize |-> Get(st[id], "price", 0),
     price |-> [num |-> Get(st[id], "price", 0), den |-> 1],
     trades |-> <<id>>, first |-> id, userAddress |-> st[id].userAddress]

\* the arguments of post_order in do_trading: the action and the trade itself (an
\* absent side is shown as None, an absent usdcSize or price as 0)
SingleOrder(st, id) ==
    [kind |-> "single", action |-> ActionOf(Get(st[id], "side", None)),
     side |-> Get(st[id], "side", None),
     usdcSize |-> Get(st[id], "usdcSize", 0),
     price |-> [num |-> Get(st[id], "price", 0), den |-> 1],
     trades |-> <<id>>, first |-> id, userAddress |-> st[id].userAddress]

\* mutant of AggregatedOrder: the order carries price 0 instead of the average price
AggregatedOrder_PriceDropped(agg) ==
    [kind |-> "agg", action |-> ActionOf(agg.side), side |-> agg.side,
     usdcSize |-> agg.totalUsdcSize, price |-> [num |-> 0, den |-> 1],
     trades |-> agg.trades, first |-> agg.trades[1], userAddress |-> agg.userAddress]

\* the synthetic trade and the arguments of post_order in do_aggregated_trading
AggregatedOrder(agg) ==
    [kind |-> "agg", action |-> ActionOf(agg.side), side |-> agg.side,
     usdcSize |-> agg.totalUsdcSize, price |-> agg.averagePrice,
     trades |-> agg.trades, first |-> agg.trades[1], userAddress |-> agg.userAddress]

NoOrder == [kind |-> "none"]

(***************************************************************************)
(* Initial state: the module is loaded in a live deployment, the store is  *)
(* empty, trade_executor has not been called yet.                          *)
(***************************************************************************)
Init ==
    /\ environ = LiveEnvironment
    /\ USER_ADDRESSES \in AddressLists
    /\ aggEnabled \in BOOLEAN
    /\ store = <<>>
    /\ buffer = <<>>
    /\ is_running = TRUE
    /\ pc = "idle"
    /\ now = 0
    /\ trades = <<>>
    /\ ready = <<>>
    /\ cur = NoOrder
    /\ orders = <<>>
    /\ markWrites = <<>>
    /\ handed = <<>>
    /\ evals = <<>>

(***************************************************************************)
(* The collaborators.                                                      *)
(***************************************************************************)
\* The ingestion collaborator inserts a trade record.  The loop reads the store
\* only in read_temp_trades, and every tick ends in an await, so an insert during
\* a synchronous stretch of the loop is the same as one at the next await.
Ingest ==
    /\ pc \in {"idle", "lookup", "post", "sleep"}
    /\ Len(store) < MaxTrades
    /\ \E a \in Range(USER_ADDRESSES), c \in ConditionIds, as \in Assets, sh \in TradeShapes :
          store' = Append(store, [userAddress |-> a, conditionId |-> c, asset |-> as,
                                  side |-> sh[1], usdcSize |-> sh[2], price |-> sh[3],
                                  bot |-> FALSE, botExcutedTime |-> 0])
    /\ markWrites' = Append(markWrites, 0)
    /\ handed' = Append(handed, 0)
    /\ UNCHANGED <<USER_ADDRESSES, environ, aggEnabled, buffer, is_running, pc, now, trades, ready, cur, orders, evals>>

\* stop_trade_executor is called by the shutdown request.  The loop runs on a
\* single-threaded event loop, so the call happens before trade_executor runs,
\* while it is suspended in an await, or after it has returned.
\* mutant of stop_trade_executor: the call also empties the aggregation buffer
stop_trade_executor_ClearsBuffer ==
    /\ pc \in {"idle", "lookup", "post", "sleep", "stopped", "crashed"}
    /\ is_running' = FALSE
    /\ buffer' = <<>>
    /\ UNCHANGED <<USER_ADDRESSES, environ, aggEnabled, store, pc, now, trades, ready, cur, orders,
                   markWrites, handed, evals>>

stop_trade_executor ==
    /\ pc \in {"idle", "lookup", "post", "sleep", "stopped", "crashed"}
    /\ is_running' = FALSE
    /\ UNCHANGED <<USER_ADDRESSES, environ, aggEnabled, store, buffer, pc, now, trades, ready, cur, orders,
                   markWrites, handed, evals>>

\* time passes while the coroutine is suspended in an await
TimePasses ==
    /\ pc \in {"lookup", "post", "sleep"}
    /\ now < MaxTime
    /\ now' = now + 1
    /\ UNCHANGED <<USER_ADDRESSES, environ, aggEnabled, store, buffer, is_running, pc, trades, ready, cur, orders,
                   markWrites, handed, evals>>

(***************************************************************************)
(* The executor loop, trade_executor.                                      *)
(***************************************************************************)
\* trade_executor(clob_client) is called: the lines before the loop
trade_executor ==
    /\ pc = "idle"
    /\ pc' = "top"
    /\ UNCHANGED <<USER_ADDRESSES, environ, aggEnabled, store, buffer, is_running, now, trades, ready, cur, orders,
                   markWrites, handed, evals>>

\* mutant of LoopTop: the loop condition is not read
LoopTop_IgnoresStop ==
    /\ pc = "top"
    /\ trades' = read_temp_trades(store)
    /\ pc' = "trades"
    /\ UNCHANGED <<USER_ADDRESSES, environ, aggEnabled, store, buffer, is_running, now, ready, cur,
                   orders, markWrites, handed, evals>>

\* "while is_running:" and "trades = await read_temp_trades()"
LoopTop ==
    /\ pc = "top"
    /\ IF is_running
       THEN /\ trades' = read_temp_trades(store)
            /\ pc' = "trades"
       ELSE /\ pc' = "stopped"
            /\ UNCHANGED trades
    /\ UNCHANGED <<USER_ADDRESSES, environ, aggEnabled, store, buffer, is_running, now, ready, cur, orders,
                   markWrites, handed, evals>>

\* mutant of GoesToBuffer: a trade whose size equals the minimum is buffered too
GoesToBuffer_FloorIncluded(st, id) ==
    /\ Get(st[id], "side", None) = "BUY"
    /\ Get(st[id], "usdcSize", 0) <= TRADE_AGGREGATION_MIN_TOTAL_USD

\* mutant of GoesToBuffer: the size of the trade is not looked at
GoesToBuffer_AnySize(st, id) == Get(st[id], "side", None) = "BUY"

\* mutant of GoesToBuffer: the side of the trade is not looked at
GoesToBuffer_AnySide(st, id) == st[id].usdcSize < TRADE_AGGREGATION_MIN_TOTAL_USD

\* trade.get("side") == "BUY" and trade.get("usdcSize", 0) < TRADE_AGGREGATION_MIN_TOTAL_USD
GoesToBuffer(st, id) ==
    /\ Get(st[id], "side", None) = "BUY"
    /\ Get(st[id], "usdcSize", 0) < TRADE_AGGREGATION_MIN_TOTAL_USD

\* one iteration of "for trade in trades": add_to_aggregation_buffer(trade)
AddTrade ==
    /\ pc = "trades"
    /\ trades # <<>>
    /\ aggEnabled
    /\ GoesToBuffer(store, Head(trades))
    /\ buffer' = add_to_aggregation_buffer(store, buffer, Head(trades), now)
    /\ handed' = [handed EXCEPT ![Head(trades)] = @ + 1]
    /\ trades' = Tail(trades)
    /\ UNCHANGED <<USER_ADDRESSES, environ, aggEnabled, store, is_running, pc, now, ready, cur, orders,
                   markWrites, evals>>

\* one iteration of do_trading up to its first await: the record is marked
StartTrade ==
    /\ pc = "trades"
    /\ trades # <<>>
    /\ ~(aggEnabled /\ GoesToBuffer(store, Head(trades)))
    /\ store' = MarkExecuted(store, Head(trades))
    /\ markWrites' = CountWrites(markWrites, <<Head(trades)>>)
    /\ handed' = [handed EXCEPT ![Head(trades)] = @ + 1]
    /\ cur' = SingleOrder(store, Head(trades))
    /\ trades' = Tail(trades)
    /\ pc' = "lookup"
    /\ UNCHANGED <<USER_ADDRESSES, environ, aggEnabled, buffer, is_running, now, ready, orders, evals>>

\* the fetched trades are handled; with aggregation, get_ready_aggregated_trades()
TradesDone ==
    /\ pc = "trades"
    /\ trades = <<>>
    /\ IF aggEnabled
       THEN /\ ready' = ReadyOf(buffer, now)
            /\ store' = MarkAllBot(store, AllTrades(SkippedOf(buffer, now)))
            /\ markWrites' = CountWrites(markWrites, AllTrades(SkippedOf(buffer, now)))
            /\ evals' = evals \o EvaluationsOf(buffer, now)
            /\ buffer' = RemainingOf(buffer, now)
            /\ pc' = "aggs"
       ELSE /\ pc' = "endtick"
            /\ UNCHANGED <<ready, store, markWrites, evals, buffer>>
    /\ UNCHANGED <<USER_ADDRESSES, environ, aggEnabled, is_running, now, trades, cur, orders, handed>>

\* one iteration of do_aggregated_trading up to its first await: the records are marked
StartAggregated ==
    /\ pc = "aggs"
    /\ ready # <<>>
    /\ store' = MarkAllExecuted(store, Head(ready).trades)
    /\ markWrites' = CountWrites(markWrites, Head(ready).trades)
    /\ cur' = AggregatedOrder(Head(ready))
    /\ ready' = Tail(ready)
    /\ pc' = "lookup"
    /\ UNCHANGED <<USER_ADDRESSES, environ, aggEnabled, buffer, is_running, now, trades, orders, handed, evals>>

\* every ready aggregation is dispatched
AggregatedDone ==
    /\ pc = "aggs"
    /\ ready = <<>>
    /\ pc' = "endtick"
    /\ UNCHANGED <<USER_ADDRESSES, environ, aggEnabled, store, buffer, is_running, now, trades, ready, cur, orders,
                   markWrites, handed, evals>>

\* fetch_data_async (positions) and get_my_balance_async return
LookupReturns ==
    /\ pc = "lookup"
    /\ pc' = "post"
    /\ UNCHANGED <<USER_ADDRESSES, environ, aggEnabled, store, buffer, is_running, now, trades, ready, cur, orders,
                   markWrites, handed, evals>>

\* a lookup raises: nothing in trade_executor catches it
LookupRaises ==
    /\ pc = "lookup"
    /\ pc' = "crashed"
    /\ UNCHANGED <<USER_ADDRESSES, environ, aggEnabled, store, buffer, is_running, now, trades, ready, cur, orders,
                   markWrites, handed, evals>>

\* where the loop continues after one dispatch
AfterDispatch(order) == IF order.kind = "agg" THEN "aggs" ELSE "trades"

\* post_order returns
PostOrderReturns ==
    /\ pc = "post"
    /\ orders' = Append(orders, cur)
    /\ cur' = NoOrder
    /\ pc' = AfterDispatch(cur)
    /\ UNCHANGED <<USER_ADDRESSES, environ, aggEnabled, store, buffer, is_running, now, trades, ready,
                   markWrites, handed, evals>>

\* post_order raises: nothing in trade_executor catches it
PostOrderRaises ==
    /\ pc = "post"
    /\ pc' = "crashed"
    /\ UNCHANGED <<USER_ADDRESSES, environ, aggEnabled, store, buffer, is_running, now, trades, ready, cur, orders,
                   markWrites, handed, evals>>

\* mutant of ContinueAfterTick: the check before the pacing sleep is left out
ContinueAfterTick_NoCheck(running) == "sleep"

\* the check before the pacing sleep: "if not is_running: break"
ContinueAfterTick(running) == IF running THEN "sleep" ELSE "stopped"

EndOfTick ==
    /\ pc = "endtick"
    /\ pc' = ContinueAfterTick(is_running)
    /\ UNCHANGED <<USER_ADDRESSES, environ, aggEnabled, store, buffer, is_running, now, trades, ready, cur, orders,
                   markWrites, handed, evals>>

\* await asyncio.sleep(0.3) returns.  At the last clock value the loop is woken only
\* when a stop was requested: that tick does nothing but leave the loop.
Wake ==
    /\ pc = "sleep"
    /\ now < MaxTime \/ ~is_running
    /\ now' = IF now < MaxTime THEN now + 1 ELSE now
    /\ pc' = "top"
    /\ UNCHANGED <<USER_ADDRESSES, environ, aggEnabled, store, buffer, is_running, trades, ready, cur, orders,
                   markWrites, handed, evals>>

Next ==
    \/ Ingest
    \/ stop_trade_executor
    \/ TimePasses
    \/ trade_executor
    \/ LoopTop
    \/ AddTrade
    \/ StartTrade
    \/ TradesDone
    \/ StartAggregated
    \/ AggregatedDone
    \/ LookupReturns
    \/ LookupRaises
    \/ PostOrderReturns
    \/ PostOrderRaises
    \/ EndOfTick
    \/ Wake

Spec == Init /\ [][Next]_vars

\* the steps of the loop when every collaborator call returns
NormalStep ==
    \/ trade_executor
    \/ LoopTop
    \/ AddTrade
    \/ StartTrade
    \/ TradesDone
    \/ StartAggregated
    \/ AggregatedDone
    \/ LookupReturns
    \/ PostOrderReturns
    \/ EndOfTick
    \/ Wake

(***************************************************************************)
(* The loop with a shutdown request, when every collaborator call returns: *)
(* the event loop resumes the coroutine whenever it can take a step.       *)
(***************************************************************************)
NextStop ==
    \/ Ingest
    \/ stop_trade_executor
    \/ TimePasses
    \/ NormalStep

SpecStop == Init /\ [][NextStop]_vars /\ WF_vars(NormalStep)

(***************************************************************************)
(* The loop left running, when every collaborator call returns: trades are *)
(* inserted while the loop is suspended, and the event loop resumes the    *)
(* coroutine whenever the call or sleep it awaits has returned.            *)
(***************************************************************************)
NextLive ==
    \/ Ingest
    \/ NormalStep

SpecLive == Init /\ [][NextLive]_vars /\ WF_vars(NormalStep)

(***************************************************************************)
(* The counterpart data of a dispatch: what the two positions lookups      *)
(* return and what do_trading / do_aggregated_trading make of it.          *)
(***************************************************************************)
\* a JSON value of the field currentValue: null or a number
JsonNull == [isNull |-> TRUE]
JsonNumber(n) == [isNull |-> FALSE, val |-> n]

\* positions of the data API: of another market without currentValue, of another
\* market with currentValue null, of the traded market with a value and with null
PositionElsewhereNoValue == [conditionId |-> "c0"]
PositionElsewhereNull == [conditionId |-> "c0", currentValue |-> JsonNull]
PositionHereValue == [conditionId |-> "c1", currentValue |-> JsonNumber(3)]
PositionHereNull == [conditionId |-> "c1", currentValue |-> JsonNull]

\* the responses of one dispatch: my positions, the tracked trader's positions
LookupPairs ==
    {<<[isList |-> FALSE], [isList |-> TRUE, items |-> <<PositionElsewhereNoValue, PositionElsewhereNull>>]>>,
     <<[isList |-> TRUE, items |-> <<>>], [isList |-> FALSE]>>,
     <<[isList |-> TRUE, items |-> <<PositionElsewhereNull, PositionHereValue, PositionHereNull>>],
       [isList |-> TRUE, items |-> <<PositionElsewhereNull, PositionHereValue, PositionHereNull>>]>>}

\* data if isinstance(data, list) else []
PositionsList(resp) == IF resp.isList THEN resp.items ELSE <<>>

\* the value None of next(..., None)
NoPosition == [absent |-> TRUE]

\* mutant of FindPosition: the market of the position is not compared
FindPosition_AnyMarket(list, conditionId) == IF list = <<>> THEN NoPosition ELSE list[1]

\* next((p for p in list if p.get("conditionId") == conditionId), None)
FindPosition(list, conditionId) ==
    LET hits == SelectSeq(list, LAMBDA p : Get(p, "conditionId", None) = conditionId)
    IN IF hits = <<>> THEN NoPosition ELSE hits[1]

\* pos.get("currentValue", 0) or 0
CurrentValueOrZero(pos) ==
    LET v == Get(pos, "currentValue", JsonNumber(0))
    IN IF v.isNull THEN 0 ELSE v.val

RECURSIVE SumCurrentValue(_)
\* sum(pos.get("currentValue", 0) or 0 for pos in user_positions_list)
SumCurrentValue(list) ==
    IF list = <<>> THEN 0 ELSE CurrentValueOrZero(Head(list)) + SumCurrentValue(Tail(list))

\* the arguments post_order gets besides the trade: my_position, user_position, user_balance
Counterpart(mine, theirs, conditionId) ==
    [myResponse |-> mine, userResponse |-> theirs,
     my_position |-> FindPosition(PositionsList(mine), conditionId),
     user_position |-> FindPosition(PositionsList(theirs), conditionId),
     user_balance |-> SumCurrentValue(PositionsList(theirs))]

\* the two fetch_data_async calls and get_my_balance_async return
LookupReturnsData ==
    /\ pc = "lookup"
    /\ \E pair \in LookupPairs :
          cur' = cur @@ Counterpart(pair[1], pair[2], Get(store[cur.first], "conditionId", None))
    /\ pc' = "post"
    /\ UNCHANGED <<USER_ADDRESSES, environ, aggEnabled, store, buffer, is_running, now, trades,
                   ready, orders, markWrites, handed, evals>>

NextLookup ==
    \/ Ingest
    \/ trade_executor
    \/ LoopTop
    \/ AddTrade
    \/ StartTrade
    \/ TradesDone
    \/ StartAggregated
    \/ AggregatedDone
    \/ LookupReturnsData
    \/ PostOrderReturns
    \/ EndOfTick
    \/ Wake

SpecLookup == Init /\ [][NextLookup]_vars

(***************************************************************************)
(* Loading the module: the safety gate runs before anything else of the    *)
(* module exists.                                                          *)
(***************************************************************************)
InitGate ==
    /\ environ \in Environments
    /\ USER_ADDRESSES \in AddressLists
    /\ aggEnabled \in BOOLEAN
    /\ store = <<>>
    /\ buffer = <<>>
    /\ is_running = TRUE
    /\ pc = "unloaded"
    /\ now = 0
    /\ trades = <<>>
    /\ ready = <<>>
    /\ cur = NoOrder
    /\ orders = <<>>
    /\ markWrites = <<>>
    /\ handed = <<>>
    /\ evals = <<>>

\* import of trade_executor: the two raise statements of the gate, or the rest of the module
LoadModule ==
    /\ pc = "unloaded"
    /\ pc' = IF ModuleLoads(ENABLE_TRADING, APP_PHASE) THEN "idle" ELSE "importError"
    /\ UNCHANGED <<USER_ADDRESSES, environ, aggEnabled, store, buffer, is_running, now, trades,
                   ready, cur, orders, markWrites, handed, evals>>

NextGate ==
    \/ LoadModule
    \/ Ingest
    \/ NormalStep

SpecGate == InitGate /\ [][NextGate]_vars

(***************************************************************************)
(* Records that lack a field: the ingestion collaborator inserts a trade   *)
(* record without side, without usdcSize or without price.                 *)
(***************************************************************************)
MalformedShapes ==
    {[usdcSize |-> 4, price |-> 2], [usdcSize |-> 10, price |-> 2],
     [side |-> "BUY", price |-> 2], [side |-> "BUY", usdcSize |-> 10]}

IngestMalformed ==
    /\ pc \in {"idle", "lookup", "post", "sleep"}
    /\ Len(store) < MaxTrades
    /\ \E a \in Range(USER_ADDRESSES), c \in ConditionIds, as \in Assets, sh \in MalformedShapes :
          store' = Append(store, [userAddress |-> a, conditionId |-> c, asset |-> as,
                                  bot |-> FALSE, botExcutedTime |-> 0] @@ sh)
    /\ markWrites' = Append(markWrites, 0)
    /\ handed' = Append(handed, 0)
    /\ UNCHANGED <<USER_ADDRESSES, environ, aggEnabled, buffer, is_running, pc, now, trades,
                   ready, cur, orders, evals>>

NextMalformed ==
    \/ IngestMalformed
    \/ Ingest
    \/ NormalStep

SpecMalformed == Init /\ [][NextMalformed]_vars

(***************************************************************************)
(* The key function on its own: two trade records are drawn from field     *)
(* values that contain the separator or are absent, and each is added to   *)
(* the buffer by add_to_aggregation_buffer.                                *)
(***************************************************************************)
KeyConditionIds == {"c", "c:"}
KeyAssets == {"t", ":t"}
KeySides == {"BUY", "SELL"}

\* the key fields a record can carry besides userAddress; any of them may be absent
KeyParts ==
    LET cs == {[conditionId |-> c] : c \in KeyConditionIds} \cup {[bot |-> FALSE]}
        as == {[asset |-> a] : a \in KeyAssets} \cup {[bot |-> FALSE]}
        ss == {[side |-> sd] : sd \in KeySides} \cup {[bot |-> FALSE]}
    IN {c @@ a @@ sd : c \in cs, a \in as, sd \in ss}

KeyTrades ==
    {[userAddress |-> "a1", usdcSize |-> 4, price |-> 2, bot |-> FALSE, botExcutedTime |-> 0] @@ k :
        k \in KeyParts}

InitKey ==
    /\ environ = LiveEnvironment
    /\ USER_ADDRESSES = <<"a1">>
    /\ aggEnabled = TRUE
    /\ \E t1 \in KeyTrades, t2 \in KeyTrades : store = <<t1, t2>>
    /\ buffer = <<>>
    /\ is_running = TRUE
    /\ pc = "keys"
    /\ now = 0
    /\ trades = <<1, 2>>
    /\ ready = <<>>
    /\ cur = NoOrder
    /\ orders = <<>>
    /\ markWrites = <<0, 0>>
    /\ handed = <<0, 0>>
    /\ evals = <<>>

\* add_to_aggregation_buffer(trade) for the next of the two records
AddKeyed ==
    /\ pc = "keys"
    /\ trades # <<>>
    /\ buffer' = add_to_aggregation_buffer(store, buffer, Head(trades), now)
    /\ handed' = [handed EXCEPT ![Head(trades)] = @ + 1]
    /\ trades' = Tail(trades)
    /\ UNCHANGED <<USER_ADDRESSES, environ, aggEnabled, store, is_running, pc, now, ready, cur,
                   orders, markWrites, evals>>

NextKey == AddKeyed

SpecKey == InitKey /\ [][NextKey]_vars

(***************************************************************************)
(* Notions the properties below are stated in.                             *)
(***************************************************************************)
Processed(rec) == ~Unprocessed(rec)

Ids == 1..Len(store)

\* the distinct trade records (store ids) in a list of trades
Distinct(ids) == Range(ids)

RECURSIVE NotionalOf(_)
\* sum of usdcSize over a set of trade records
NotionalOf(S) ==
    IF S = {} THEN 0
    ELSE LET x == CHOOSE y \in S : TRUE IN store[x].usdcSize + NotionalOf(S \ {x})

RECURSIVE ValueOf(_)
\* sum of usdcSize * price over a set of trade records
ValueOf(S) ==
    IF S = {} THEN 0
    ELSE LET x == CHOOSE y \in S : TRUE
         IN store[x].usdcSize * store[x].price + ValueOf(S \ {x})

\* sum of usdcSize over the distinct trade records of ids
DistinctNotional(ids) == NotionalOf(Distinct(ids))

\* sum of usdcSize * price over the distinct trade records of ids
DistinctValue(ids) == ValueOf(Distinct(ids))

BelowFloor(id) == store[id].usdcSize < TRADE_AGGREGATION_MIN_TOTAL_USD

InBuffer(buf, id) == \E i \in 1..Len(buf) : id \in Range(buf[i].trades)

\* in this step the loop adds trade id to the buffer and leaves its record unmarked
BufferedStep(id) ==
    /\ InBuffer(buffer', id)
    /\ Unprocessed(store'[id])
    /\ markWrites'[id] = markWrites[id]
    /\ cur' = cur

\* in this step the loop marks trade id and begins its dispatch as a singleton
ImmediateStep(id) ==
    /\ cur'.kind = "single"
    /\ cur'.trades = <<id>>
    /\ Processed(store'[id])
    /\ buffer' = buffer

\* the orders dispatched so far that cover trade id
Covering(id) ==
    {k \in 1..Len(orders) : id \in Range(orders[k].trades)}

MinPrice(ids) == CHOOSE p \in {store[id].price : id \in Distinct(ids)} :
                    \A id \in Distinct(ids) : p <= store[id].price

MaxPrice(ids) == CHOOSE p \in {store[id].price : id \in Distinct(ids)} :
                    \A id \in Distinct(ids) : p >= store[id].price

\* averagePrice lies within [min, max] of the constituents' prices
AverageWithinPrices(agg) ==
    /\ MinPrice(agg.trades) * agg.averagePrice.den <= agg.averagePrice.num
    /\ agg.averagePrice.num <= MaxPrice(agg.trades) * agg.averagePrice.den

(***************************************************************************)
(* C1: with aggregation enabled there is at most one buffered batch per    *)
(* key, and each batch's totalNotional is the sum of usdcNotional over the *)
(* distinct trade records observed for that key since it was created.      *)
(***************************************************************************)
C1_OneBatchPerKeyExactTotal ==
    aggEnabled =>
        /\ \A i, j \in 1..Len(buffer) : buffer[i].key = buffer[j].key => i = j
        /\ \A i \in 1..Len(buffer) :
              buffer[i].totalUsdcSize = DistinctNotional(buffer[i].trades)

(***************************************************************************)
(* C2: a trade id is handed to addTrade or to immediate dispatch at most   *)
(* once in a run.                                                          *)
(***************************************************************************)
C2_HandedAtMostOnce == \A id \in Ids : handed[id] <= 1

(***************************************************************************)
(* C3: for every trade id the number of store writes that mark it          *)
(* processed is at most one, and exactly one once it is processed.         *)
(***************************************************************************)
C3_MarkedExactlyOnce ==
    \A id \in Ids :
        /\ markWrites[id] <= 1
        /\ Processed(store[id]) => markWrites[id] = 1

(***************************************************************************)
(* C4: a batch of several BUY trades, each below the floor and with a      *)
(* combined notional below the floor, is evaluated at expiry with          *)
(* totalNotional equal to the combined notional and is discarded: its      *)
(* trades are marked processed and no order covers them.                   *)
(***************************************************************************)
C4_SubFloorBatchDiscarded ==
    \A k \in 1..Len(evals) :
        LET ids == evals[k].agg.trades IN
        (/\ Cardinality(Distinct(ids)) >= 2
         /\ \A id \in Distinct(ids) : store[id].side = "BUY" /\ BelowFloor(id)
         /\ DistinctNotional(ids) < TRADE_AGGREGATION_MIN_TOTAL_USD)
        => /\ evals[k].agg.totalUsdcSize = DistinctNotional(ids)
           /\ evals[k].outcome = "discard"
           /\ \A id \in Distinct(ids) : Processed(store[id]) /\ Covering(id) = {}

(***************************************************************************)
(* C5: when sub-floor BUY trades of one key reach the floor together, the  *)
(* order dispatched for the batch has targetNotional equal to the sum of   *)
(* the distinct trades' notionals and price equal to their                 *)
(* notional-weighted mean, and it is the only order covering them.         *)
(***************************************************************************)
C5_BatchOrderIsSumAndMean ==
    \A k \in 1..Len(orders) :
        LET o == orders[k] IN
        (/\ o.kind = "agg"
         /\ \A id \in Distinct(o.trades) : BelowFloor(id)
         /\ DistinctNotional(o.trades) >= TRADE_AGGREGATION_MIN_TOTAL_USD)
        => /\ o.usdcSize = DistinctNotional(o.trades)
           /\ o.price.num * DistinctNotional(o.trades) = DistinctValue(o.trades) * o.price.den
           /\ \A id \in Distinct(o.trades) : Covering(id) = {k}

(***************************************************************************)
(* C6: an error raised while dispatching a trade or a batch does not       *)
(* propagate out of trade_executor.                                        *)
(***************************************************************************)
C6_NoExceptionEscapes == pc # "crashed"

(***************************************************************************)
(* C7 as claimed: once the stop flag is set, no further trade or batch is  *)
(* marked (a dispatch begins with the mark of its records).                *)
(***************************************************************************)
C7_NoMarkAfterStop ==
    [][~is_running => \A id \in Ids : markWrites'[id] = markWrites[id]]_vars

(***************************************************************************)
(* C7 as amended: the stop flag is read at the top of a tick and before    *)
(* the pacing sleep only; once it is set no new tick begins (no fetch) and *)
(* no pacing sleep is entered.                                             *)
(***************************************************************************)
C7_NoNewTickAfterStop ==
    [][~is_running => /\ ~(pc = "top" /\ pc' = "trades")
                      /\ (pc # "sleep" => pc' # "sleep")]_vars

\* the loop left at the end-of-tick check of its first tick, after a dispatch
C7_Witness ==
    /\ ~is_running
    /\ pc = "stopped"
    /\ now = 0
    /\ Len(orders) >= 2

(***************************************************************************)
(* C8 as claimed: with aggregation enabled a fetched trade is dispatched   *)
(* immediately and marked iff it is BUY and meets the floor; every other   *)
(* trade is buffered and left unmarked.                                    *)
(***************************************************************************)
C8_ImmediateIffBuyAtFloor ==
    [][aggEnabled =>
        \A id \in Ids : handed'[id] > handed[id] =>
            IF store[id].side = "BUY" /\ ~BelowFloor(id)
            THEN ImmediateStep(id) ELSE BufferedStep(id)]_vars

(***************************************************************************)
(* C8 as amended: with aggregation enabled a fetched trade is buffered and *)
(* left unmarked iff it is BUY and below the floor; every other trade      *)
(* (every SELL trade, whatever its size) is dispatched immediately and     *)
(* marked.                                                                 *)
(***************************************************************************)
C8_BufferedIffBuyBelowFloor ==
    [][aggEnabled =>
        \A id \in Ids : handed'[id] > handed[id] =>
            IF store[id].side = "BUY" /\ BelowFloor(id)
            THEN BufferedStep(id) ELSE ImmediateStep(id)]_vars

\* a SELL trade below the floor was dispatched as a singleton while a BUY trade is buffered
C8_Witness ==
    /\ aggEnabled
    /\ \E k \in 1..Len(orders) :
          orders[k].kind = "single" /\ orders[k].side = "SELL"
          /\ orders[k].usdcSize < TRADE_AGGREGATION_MIN_TOTAL_USD
    /\ buffer # <<>>

(***************************************************************************)
(* C9: the records of a dispatch (one trade, or every constituent of a     *)
(* batch) are marked processed before its lookups and before its order     *)
(* call; no order call is made for an unprocessed record.                  *)
(***************************************************************************)
C9_MarkedBeforeDispatch ==
    /\ pc \in {"lookup", "post"} => \A id \in Range(cur.trades) : Processed(store[id])
    /\ \A k \in 1..Len(orders) : \A id \in Range(orders[k].trades) : Processed(store[id])

\* a batch of two records is marked and about to do its lookups
C9_Witness ==
    /\ pc = "lookup"
    /\ cur.kind = "agg"
    /\ Cardinality(Range(cur.trades)) >= 2

(***************************************************************************)
(* C10 as claimed: every buffered batch's averagePrice lies within         *)
(* [min, max] of its constituents' prices, trades of notional 0 included.  *)
(***************************************************************************)
C10_AverageAlwaysWithinPrices ==
    \A i \in 1..Len(buffer) : AverageWithinPrices(buffer[i])

(***************************************************************************)
(* C10 as amended: every buffered batch with a positive totalNotional has  *)
(* its averagePrice within [min, max] of its constituents' prices.         *)
(***************************************************************************)
C10_AverageWithinPricesWhenPositive ==
    \A i \in 1..Len(buffer) :
        buffer[i].totalUsdcSize > 0 => AverageWithinPrices(buffer[i])

\* a merged batch whose average lies strictly between two different prices
C10_Witness ==
    \E i \in 1..Len(buffer) :
        /\ buffer[i].totalUsdcSize > 0
        /\ Len(buffer[i].trades) >= 2
        /\ MinPrice(buffer[i].trades) * buffer[i].averagePrice.den < buffer[i].averagePrice.num
        /\ buffer[i].averagePrice.num < MaxPrice(buffer[i].trades) * buffer[i].averagePrice.den


(***************************************************************************)
(* C11: a batch the release policy has evaluated (ready or discarded) is   *)
(* out of the buffer for good: none of its constituent trades is in the    *)
(* buffer or fetched again, no later evaluation holds any of them, and it  *)
(* is either released (at most one order covers its trades and none of     *)
(* them was marked as discarded) or discarded (no order covers its         *)
(* trades), never both.                                                    *)
(***************************************************************************)
C11_EvaluatedBatchGoneForGood ==
    \A k \in 1..Len(evals) :
        LET ids == Range(evals[k].agg.trades) IN
        /\ \A id \in ids : ~InBuffer(buffer, id) /\ id \notin Range(trades)
        /\ \A l \in 1..Len(evals) : l # k => Range(evals[l].agg.trades) \cap ids = {}
        /\ evals[k].outcome = "discard" =>
              \A id \in ids : /\ Covering(id) = {}
                             /\ store[id].bot
                             /\ cur.kind # "none" => id \notin Range(cur.trades)
        /\ evals[k].outcome = "ready" =>
              \A id \in ids : Cardinality(Covering(id)) <= 1 /\ ~store[id].bot

\* a later tick has fetched after one batch was released and another discarded
C11_Witness ==
    /\ pc = "trades"
    /\ \E k, l \in 1..Len(evals) :
          /\ evals[k].outcome = "ready" /\ evals[k].at < now
          /\ evals[l].outcome = "discard" /\ evals[l].at < now


\* the two records have the same userAddress, conditionId, asset and side (an absent
\* field counts as its default)
SameKeyFields(a, b) ==
    /\ a.userAddress = b.userAddress
    /\ Get(a, "conditionId", "") = Get(b, "conditionId", "")
    /\ Get(a, "asset", "") = Get(b, "asset", "")
    /\ Get(a, "side", "BUY") = Get(b, "side", "BUY")

\* both trades are constituents of one buffered batch
SameBatch(buf, a, b) == \E i \in 1..Len(buf) : {a, b} \subseteq Range(buf[i].trades)

(***************************************************************************)
(* C12: two buffered trades are in the same batch (get_aggregation_key     *)
(* gives them the same key) if and only if they agree on userAddress,      *)
(* conditionId, asset and side, also for values that contain ':' and for   *)
(* records that lack a field.                                              *)
(***************************************************************************)
C12_SameBatchIffSameFields ==
    \A a, b \in Ids :
        InBuffer(buffer, a) /\ InBuffer(buffer, b) =>
            (SameBatch(buffer, a, b) <=> SameKeyFields(store[a], store[b]))


(***************************************************************************)
(* C13: with aggregation disabled the buffer is empty in every reachable   *)
(* state and the release policy never runs; every order is a singleton     *)
(* whose notional and price are the trade's own usdcSize and price; and    *)
(* when a tick reaches its end, every trade it fetched has been            *)
(* dispatched, once.                                                       *)
(***************************************************************************)
C13_DisabledDispatchesSingletons ==
    ~aggEnabled =>
        /\ buffer = <<>> /\ ready = <<>> /\ evals = <<>>
        /\ cur.kind \in {"none", "single"}
        /\ \A k \in 1..Len(orders) :
              LET id == orders[k].first IN
              /\ orders[k].kind = "single"
              /\ orders[k].trades = <<id>>
              /\ orders[k].usdcSize = store[id].usdcSize
              /\ orders[k].price = [num |-> store[id].price, den |-> 1]
        /\ pc = "endtick" =>
              /\ trades = <<>>
              /\ \A id \in Ids : Cardinality(Covering(id)) = handed[id] /\ handed[id] <= 1

\* a tick ends after it dispatched two fetched trades, one of them a BUY trade below the floor
C13_Witness ==
    /\ ~aggEnabled
    /\ pc = "endtick"
    /\ Len(orders) = 2
    /\ \E k \in 1..Len(orders) :
          orders[k].side = "BUY" /\ orders[k].usdcSize < TRADE_AGGREGATION_MIN_TOTAL_USD
    /\ \A id \in Ids : handed[id] = 1


(***************************************************************************)
(* C14: with aggregation enabled, the step that handles a fetched trade    *)
(* whose notional is at or above the floor marks it and begins its         *)
(* dispatch as a singleton carrying the trade's own notional, and leaves   *)
(* the buffer unchanged.                                                   *)
(***************************************************************************)
C14_AtFloorDispatchedAtOnce ==
    [][aggEnabled =>
        \A id \in Ids :
            (handed'[id] > handed[id] /\ ~BelowFloor(id)) =>
                /\ ImmediateStep(id)
                /\ cur'.usdcSize = store[id].usdcSize]_vars

\* a BUY trade of exactly the floor was dispatched as a singleton while a batch of
\* its own key stays in the buffer without it
C14_Witness ==
    /\ aggEnabled
    /\ \E k \in 1..Len(orders) :
          /\ orders[k].kind = "single"
          /\ orders[k].side = "BUY"
          /\ orders[k].usdcSize = TRADE_AGGREGATION_MIN_TOTAL_USD
          /\ \E i \in 1..Len(buffer) :
                /\ buffer[i].key = get_aggregation_key(store[orders[k].first])
                /\ orders[k].first \notin Range(buffer[i].trades)


\* the record lacks side, usdcSize or price
Malformed(rec) == ~({"side", "usdcSize", "price"} \subseteq DOMAIN rec)

(***************************************************************************)
(* C15: a trade record that lacks side, usdcSize or price is skipped: once *)
(* the loop has handled it, it is marked processed, and it is never merged *)
(* into a batch and never dispatched.                                      *)
(***************************************************************************)
C15_MalformedRecordSkipped ==
    \A id \in Ids :
        Malformed(store[id]) =>
            /\ ~InBuffer(buffer, id)
            /\ cur.kind # "none" => id \notin Range(cur.trades)
            /\ Covering(id) = {}
            /\ handed[id] >= 1 => Processed(store[id])


(***************************************************************************)
(* C16: with an empty USER_ADDRESSES the loop of trade_executor never      *)
(* begins: no fetch is made, no tick runs and no pacing sleep is entered.  *)
(***************************************************************************)
C16_NoLoopWithoutAddresses ==
    USER_ADDRESSES = <<>> => pc \in {"idle", "top", "stopped"}

\* the spellings of ENABLE_TRADING in EnableTradingValues and LiveEnvironment that
\* read "true" once trimmed and lower-cased
SpelledTrue == {<<"t", "r", "u", "e">>, <<" ", "T", "r", "U", "E", " ">>}

\* the spellings of APP_PHASE in AppPhaseValues and LiveEnvironment that are empty or
\* "4" once trimmed
EmptyOrFour == {<<>>, <<" ">>, <<"4">>, <<" ", "4", " ">>}

\* the condition of the gate on the raw environment; an unset ENABLE_TRADING reads
\* "false", an unset APP_PHASE reads ""
GateCondition(env) ==
    /\ "ENABLE_TRADING" \in DOMAIN env
    /\ env["ENABLE_TRADING"] \in SpelledTrue
    /\ "APP_PHASE" \in DOMAIN env => env["APP_PHASE"] \in EmptyOrFour

(***************************************************************************)
(* C17: the module is loaded and the loop is reachable only when           *)
(* ENABLE_TRADING, trimmed and lower-cased, is "true" and APP_PHASE,       *)
(* trimmed, is empty or "4"; in every other environment loading fails, and *)
(* nothing was fetched, buffered, marked or dispatched.                    *)
(***************************************************************************)
C17_LoopOnlyBehindGate ==
    /\ pc \notin {"unloaded", "importError"} => GateCondition(environ)
    /\ pc = "importError" => ~GateCondition(environ)
    /\ pc \in {"unloaded", "importError"} =>
          /\ store = <<>> /\ buffer = <<>> /\ trades = <<>> /\ ready = <<>>
          /\ orders = <<>> /\ evals = <<>> /\ cur = NoOrder /\ now = 0

\* the loop has dispatched an order in an environment with ENABLE_TRADING=" TrUE " and
\* APP_PHASE=" 4 "
C17_Witness ==
    /\ {"ENABLE_TRADING", "APP_PHASE"} \subseteq DOMAIN environ
    /\ environ["APP_PHASE"] = <<" ", "4", " ">>
    /\ environ["ENABLE_TRADING"] = <<" ", "T", "r", "U", "E", " ">>
    /\ Len(orders) >= 1


\* this step is one run of the release policy
ReleaseStep == pc = "trades" /\ pc' = "aggs"

\* age of a buffered batch
Age(agg, t) == t - agg.firstTradeTime

(***************************************************************************)
(* C18: one run of the release policy returns every batch with             *)
(* now - firstSeenAt >= window and total >= floor as ready and removes it; *)
(* it discards every batch with now - firstSeenAt >= window and            *)
(* total < floor: removed, not returned, every constituent marked          *)
(* processed; it returns nothing else, returns the ready batches in buffer *)
(* order, and dispatches nothing itself.                                   *)
(***************************************************************************)
C18_ReleaseDecisions ==
    [][ReleaseStep =>
        /\ \A i \in 1..Len(buffer) :
              LET agg == buffer[i] IN
              /\ (/\ Age(agg, now) >= TRADE_AGGREGATION_WINDOW_SECONDS
                  /\ agg.totalUsdcSize >= TRADE_AGGREGATION_MIN_TOTAL_USD)
                 => agg \in Range(ready') /\ agg \notin Range(buffer')
              /\ (/\ Age(agg, now) >= TRADE_AGGREGATION_WINDOW_SECONDS
                  /\ agg.totalUsdcSize < TRADE_AGGREGATION_MIN_TOTAL_USD)
                 => /\ agg \notin Range(ready') /\ agg \notin Range(buffer')
                    /\ \A id \in Range(agg.trades) : Processed(store'[id])
        /\ \A a \in 1..Len(ready') :
              \E i \in 1..Len(buffer) :
                  /\ buffer[i] = ready'[a]
                  /\ Age(buffer[i], now) >= TRADE_AGGREGATION_WINDOW_SECONDS
                  /\ buffer[i].totalUsdcSize >= TRADE_AGGREGATION_MIN_TOTAL_USD
                  /\ \A b \in 1..Len(ready') :
                        a < b => \E j \in 1..Len(buffer) : i < j /\ buffer[j] = ready'[b]
        /\ orders' = orders /\ cur' = cur]_vars

\* the release policy has just returned a batch whose age is the window and whose
\* total is the floor, and discarded another batch in the same run
C18_Witness ==
    /\ pc = "aggs"
    /\ \E a \in 1..Len(ready) :
          /\ Age(ready[a], now) = TRADE_AGGREGATION_WINDOW_SECONDS
          /\ ready[a].totalUsdcSize = TRADE_AGGREGATION_MIN_TOTAL_USD
    /\ \E k \in 1..Len(evals) :
          /\ evals[k].outcome = "discard" /\ evals[k].at = now
          /\ \A id \in Range(evals[k].agg.trades) : Processed(store[id]) /\ Covering(id) = {}

(***************************************************************************)
(* C19: one run of the release policy leaves every batch with              *)
(* now - firstSeenAt < window in the buffer as it was (same trades, total, *)
(* averagePrice, firstSeenAt, lastUpdatedAt), in the same order, and       *)
(* writes no store record of its constituents.                             *)
(***************************************************************************)
C19_YoungBatchesUntouched ==
    [][ReleaseStep =>
        /\ \A i \in 1..Len(buffer) :
              Age(buffer[i], now) < TRADE_AGGREGATION_WINDOW_SECONDS =>
                  /\ buffer[i] \in Range(buffer') /\ buffer[i] \notin Range(ready')
                  /\ \A id \in Range(buffer[i].trades) :
                        store'[id] = store[id] /\ markWrites'[id] = markWrites[id]
                  /\ \A j \in 1..Len(buffer) :
                        (i < j /\ Age(buffer[j], now) < TRADE_AGGREGATION_WINDOW_SECONDS) =>
                            \E a, b \in 1..Len(buffer') :
                                a < b /\ buffer'[a] = buffer[i] /\ buffer'[b] = buffer[j]
        /\ Len(buffer') =
              Cardinality({i \in 1..Len(buffer) :
                              Age(buffer[i], now) < TRADE_AGGREGATION_WINDOW_SECONDS})]_vars

\* a run of the release policy that removed an expired batch has left a younger one
C19_Witness ==
    /\ pc = "aggs"
    /\ \E k \in 1..Len(evals) : evals[k].at = now
    /\ \E i \in 1..Len(buffer) :
          /\ 0 < Age(buffer[i], now)
          /\ Age(buffer[i], now) < TRADE_AGGREGATION_WINDOW_SECONDS
          /\ \A id \in Range(buffer[i].trades) : Unprocessed(store[id])

(***************************************************************************)
(* C20 as claimed: no trade is ever merged into a batch at a time t with   *)
(* t - firstSeenAt >= window.                                              *)
(***************************************************************************)
C20_NoMergeAfterWindow ==
    [][\A id \in Ids :
          LET i == BufferIndex(buffer, get_aggregation_key(store[id])) IN
          (/\ handed'[id] > handed[id]
           /\ InBuffer(buffer', id)
           /\ i > 0
           /\ id \notin Range(buffer[i].trades))
          => Age(buffer[i], now) < TRADE_AGGREGATION_WINDOW_SECONDS]_vars

\* the release policy of the current tick has run
AfterRelease ==
    \/ pc \in {"aggs", "endtick", "sleep", "top", "stopped"}
    \/ pc \in {"lookup", "post"} /\ cur.kind = "agg"

(***************************************************************************)
(* C20 as amended: a tick adds its fetched trades before it runs the       *)
(* release policy, so a trade can be merged into a batch whose window has  *)
(* elapsed; such a batch is removed by the release policy of that same     *)
(* tick: once the release policy has run, no buffered batch has a merge at *)
(* a time t with t - firstSeenAt >= window.                                *)
(***************************************************************************)
C20_LateMergeOnlyInExpiryTick ==
    (aggEnabled /\ AfterRelease) =>
        \A i \in 1..Len(buffer) :
            buffer[i].lastTradeTime - buffer[i].firstTradeTime < TRADE_AGGREGATION_WINDOW_SECONDS

\* a batch was evaluated whose last trade, another record than its first, was merged
\* once, when the window had already elapsed
C20_Witness ==
    \E k \in 1..Len(evals) :
        LET agg == evals[k].agg IN
        /\ agg.lastTradeTime - agg.firstTradeTime >= TRADE_AGGREGATION_WINDOW_SECONDS
        /\ agg.trades[Len(agg.trades)] # agg.trades[1]
        /\ Count(agg.trades, agg.trades[Len(agg.trades)]) = 1


(***************************************************************************)
(* C21: a batch's firstSeenAt never changes while the batch is in the      *)
(* buffer: a step that keeps a batch (a merge into it, a merge into        *)
(* another batch, a release run that leaves it) keeps its firstTradeTime,  *)
(* key, userAddress, conditionId, asset and side, and a merge changes only *)
(* trades, totalUsdcSize, averagePrice and lastTradeTime; the time from    *)
(* which the batch is expired therefore stays firstTradeTime + window.     *)
(***************************************************************************)
C21_FirstSeenAtFixed ==
    [][\A i \in 1..Len(buffer), j \in 1..Len(buffer') :
          buffer'[j].key = buffer[i].key =>
              /\ buffer'[j].firstTradeTime = buffer[i].firstTradeTime
              /\ buffer'[j].userAddress = buffer[i].userAddress
              /\ buffer'[j].conditionId = buffer[i].conditionId
              /\ buffer'[j].asset = buffer[i].asset
              /\ buffer'[j].side = buffer[i].side
              /\ \A t \in 0..MaxTime : Expired(buffer'[j], t) <=> Expired(buffer[i], t)]_vars

\* a batch took a merge after the clock moved on and still carries the time of its
\* first trade
C21_Witness ==
    \E i \in 1..Len(buffer) :
        /\ Cardinality(Range(buffer[i].trades)) >= 2
        /\ buffer[i].firstTradeTime = 0
        /\ buffer[i].lastTradeTime > 0


(***************************************************************************)
(* C22: once stop_trade_executor has been called the loop terminates       *)
(* (every collaborator call returns); a tick that would begin after the    *)
(* call does not begin; and when the loop has terminated every batch left  *)
(* in the buffer is abandoned: its trades are unprocessed in the store, no *)
(* order covers them, and nothing changes this afterwards.                 *)
(***************************************************************************)
C22_StopTerminatesAndAbandons ==
    /\ ~is_running ~> pc = "stopped"
    /\ [][(~is_running /\ pc = "top") => pc' = "stopped"]_vars
    /\ [](pc = "stopped" =>
            \A i \in 1..Len(buffer) : \A id \in Range(buffer[i].trades) :
                Unprocessed(store[id]) /\ Covering(id) = {})
    /\ [][pc = "stopped" =>
            pc' = "stopped" /\ buffer' = buffer /\ store' = store /\ orders' = orders]_vars

\* the loop has terminated after a dispatch and has left a batch in the buffer
C22_Witness ==
    /\ ~is_running
    /\ pc = "stopped"
    /\ Len(orders) >= 1
    /\ \E i \in 1..Len(buffer) : ~Expired(buffer[i], now)


\* the batches that hold trade id among the ready batches still to be dispatched
InReady(id) == \E a \in 1..Len(ready) : id \in Range(ready[a].trades)

(***************************************************************************)
(* C23: when a lookup or the order call of a dispatch has failed, every    *)
(* record of that dispatch (the trade, or every constituent of the batch)  *)
(* is marked processed, a fetch of the store does not return it, and it is *)
(* neither among the trades still to be handled, nor in the buffer, nor in *)
(* a batch still to be dispatched, nor covered by an order.                *)
(***************************************************************************)
C23_FailedDispatchMarkedNotRetried ==
    pc = "crashed" =>
        \A id \in Range(cur.trades) :
            /\ Processed(store[id])
            /\ id \notin Range(read_temp_trades(store))
            /\ id \notin Range(trades)
            /\ ~InBuffer(buffer, id)
            /\ ~InReady(id)
            /\ Covering(id) = {}

\* the order call of a batch of two records has failed
C23_Witness ==
    /\ pc = "crashed"
    /\ cur.kind = "agg"
    /\ Cardinality(Range(cur.trades)) >= 2
    /\ \A id \in Range(cur.trades) : store[id].botExcutedTime = 1


\* position of an address in the configured list
AddressIndex(a) == CHOOSE k \in 1..Len(USER_ADDRESSES) : USER_ADDRESSES[k] = a

\* the list is ordered by configured address, and by store order within an address
InFetchOrder(list, st) ==
    \A x, y \in 1..Len(list) :
        x < y =>
            LET ax == AddressIndex(st[list[x]].userAddress)
                ay == AddressIndex(st[list[y]].userAddress)
            IN ax < ay \/ (ax = ay /\ list[x] < list[y])

(***************************************************************************)
(* C24: a fetch returns exactly the unprocessed trades of the tracked      *)
(* addresses, ordered by configured address and by store order within an   *)
(* address; the loop hands on (buffers or dispatches) the head of that     *)
(* list, one trade at a time and nothing else; and the release policy runs *)
(* only when the list is used up.                                          *)
(***************************************************************************)
C24_HandledInFetchOrder ==
    [][/\ (pc = "top" /\ pc' = "trades") =>
            /\ Range(trades') =
                  {id \in Ids : /\ Unprocessed(store[id])
                                /\ store[id].userAddress \in Range(USER_ADDRESSES)}
            /\ InFetchOrder(trades', store)
       /\ \A id \in Ids :
            handed'[id] > handed[id] =>
                /\ pc = "trades" /\ trades # <<>>
                /\ id = Head(trades)
                /\ trades' = Tail(trades)
                /\ \A other \in Ids \ {id} : handed'[other] = handed[other]
       /\ (trades' # trades /\ pc # "top") =>
            \E id \in Ids : handed'[id] > handed[id]
       /\ ReleaseStep => trades = <<>>]_vars

\* the fetched list has a later record of the first address before an earlier record
\* of the second address
C24_Witness ==
    /\ pc = "trades"
    /\ Len(trades) = 2
    /\ trades[1] > trades[2]
    /\ AddressIndex(store[trades[1]].userAddress) < AddressIndex(store[trades[2]].userAddress)


\* the evaluation that released the batch an order was dispatched for
ReleaseOf(o) ==
    {k \in 1..Len(evals) : evals[k].outcome = "ready" /\ evals[k].agg.trades = o.trades}

(***************************************************************************)
(* C25: the order dispatched for a released batch has the batch's side,    *)
(* the batch's totalUsdcSize and averagePrice as they were at release, and *)
(* the batch's first constituent as the trade it is built on; for every    *)
(* order, singleton or batch, the action is buy exactly when the side is   *)
(* BUY, and sell otherwise.                                                *)
(***************************************************************************)
C25_BatchOrderFieldsAndAction ==
    \A k \in 1..Len(orders) :
        LET o == orders[k] IN
        /\ o.action = IF o.side = "BUY" THEN "buy" ELSE "sell"
        /\ o.kind = "single" => o.side = store[o.first].side
        /\ o.kind = "agg" =>
              /\ ReleaseOf(o) # {}
              /\ \A e \in ReleaseOf(o) :
                    /\ o.side = evals[e].agg.side
                    /\ o.usdcSize = evals[e].agg.totalUsdcSize
                    /\ o.price = evals[e].agg.averagePrice
                    /\ o.first = evals[e].agg.trades[1]
                    /\ o.userAddress = store[o.first].userAddress

\* a batch of two records was dispatched with action buy and a SELL trade with action sell
C25_Witness ==
    /\ \E k \in 1..Len(orders) :
          /\ orders[k].kind = "agg" /\ orders[k].action = "buy"
          /\ Len(orders[k].trades) >= 2
          /\ orders[k].usdcSize > store[orders[k].first].usdcSize
    /\ \E k \in 1..Len(orders) :
          orders[k].kind = "single" /\ orders[k].side = "SELL" /\ orders[k].action = "sell"



\* the sum of the currentValue fields of a response that hold a number
RECURSIVE NumbersOf(_)
NumbersOf(items) ==
    IF items = <<>> THEN 0
    ELSE (IF "currentValue" \in DOMAIN Head(items) /\ ~Head(items).currentValue.isNull
          THEN Head(items).currentValue.val ELSE 0) + NumbersOf(Tail(items))

\* the counterpart data handed to post_order is what the claim says of the two responses
MissingDataAsEmpty(o, conditionId) ==
    /\ \A side \in {"my", "user"} :
          LET resp == IF side = "my" THEN o.myResponse ELSE o.userResponse
              pos == IF side = "my" THEN o.my_position ELSE o.user_position
              matches == IF resp.isList
                         THEN {i \in 1..Len(resp.items) :
                                  "conditionId" \in DOMAIN resp.items[i]
                                  /\ resp.items[i].conditionId = conditionId}
                         ELSE {}
          IN /\ matches = {} => pos = NoPosition
             /\ matches # {} => \E i \in matches : /\ pos = resp.items[i]
                                                   /\ \A j \in matches : i <= j
    /\ ~o.userResponse.isList => o.user_balance = 0
    /\ o.userResponse.isList => o.user_balance = NumbersOf(o.userResponse.items)

\* C26: missing counterpart data is treated as empty or zero and never stops a
\* dispatch: a positions response that is not a list counts as an empty list, no
\* position of the traded market counts as an absent position, an absent or null
\* currentValue counts as 0 in the tracked trader's balance, and after the lookups
\* the order-dispatch call is made with these values, for a singleton and a batch.
C26_MissingDataNeverStopsDispatch ==
    /\ [](pc = "post" => MissingDataAsEmpty(cur, store[cur.first].conditionId))
    /\ [](\A k \in 1..Len(orders) :
             MissingDataAsEmpty(orders[k], store[orders[k].first].conditionId))
    /\ [][pc = "lookup" /\ pc' # "lookup" => pc' = "post"]_vars
    /\ [][pc = "post" /\ pc' # "post" => orders' = Append(orders, cur)]_vars

\* a batch was dispatched with a non-list response for my positions and, for the
\* tracked trader, positions of another market without or with a null currentValue;
\* a singleton was dispatched with a non-list response for the tracked trader
C26_Witness ==
    /\ \E k \in 1..Len(orders) :
          /\ orders[k].kind = "agg"
          /\ ~orders[k].myResponse.isList
          /\ orders[k].userResponse.isList
          /\ Len(orders[k].userResponse.items) = 2
          /\ orders[k].my_position = NoPosition
          /\ orders[k].user_position = NoPosition
          /\ orders[k].user_balance = 0
    /\ \E k \in 1..Len(orders) :
          /\ orders[k].kind = "single"
          /\ ~orders[k].userResponse.isList
          /\ orders[k].user_balance = 0


\* the trade was handed to the buffer at some point
WasBuffered(id) == handed[id] >= 1 /\ store[id].side = "BUY" /\ BelowFloor(id)

\* C27: whenever the release policy removes a batch from the buffer, every
\* constituent is marked processed before the next store fetch of the loop and
\* before the loop exits, on every path, the one where the dispatch of an earlier
\* ready batch of the same tick fails included: at a fetch and after the loop, no
\* trade that was buffered is both absent from the buffer and unprocessed.
C27_RemovedBatchMarkedBeforeFetchOrExit ==
    (pc \in {"top", "stopped", "crashed"} /\ aggEnabled) =>
        \A id \in Ids : (WasBuffered(id) /\ ~InBuffer(buffer, id)) => Processed(store[id])


\* the clock leaves room for a window that opens at the next tick
WindowFits == now + 1 + TRADE_AGGREGATION_WINDOW_SECONDS <= MaxTime

\* C28: while the loop is not stopped, time advances and every collaborator call
\* returns, every unprocessed trade of a tracked address, one inserted while the
\* loop is suspended in a dispatch or in the pacing sleep included, is eventually
\* marked processed (as a singleton, in a batch or by a discard); with aggregation
\* enabled the release policy runs on every tick, also when the fetch was empty.
C28_EveryTradeEventuallyProcessed ==
    /\ \A id \in 1..MaxTrades :
          (id \in Ids /\ WindowFits) ~> (id \in Ids /\ Processed(store[id]))
    /\ [][(pc = "trades" /\ trades = <<>> /\ aggEnabled) =>
             /\ ReleaseStep
             /\ evals' = evals \o EvaluationsOf(buffer, now)
             /\ buffer' = RemainingOf(buffer, now)]_vars
    /\ [][(pc' = "endtick" /\ pc # "endtick" /\ aggEnabled) => pc = "aggs"]_vars

\* a trade that arrived after the first fetch (its batch opened at time 1) was
\* discarded with its batch, and the other trade was dispatched
C28_Witness ==
    /\ Len(store) = 2
    /\ \A id \in Ids : Processed(store[id])
    /\ \E e \in 1..Len(evals) :
          /\ evals[e].agg.firstTradeTime = 1
          /\ evals[e].outcome = "discard"
          /\ \A id \in Range(evals[e].agg.trades) : store[id].bot
    /\ \E id \in Ids : Covering(id) # {}


\* the dispatch in progress (marked, its order call not yet returned) covers trade id
InFlight(id) == pc \in {"lookup", "post"} /\ id \in Range(cur.trades)

\* C29: each trade id is covered by at most one dispatched order: a trade
\* dispatched as a singleton is never also a constituent of a dispatched batch, no
\* trade is a constituent of two dispatched batches, and a discarded trade is never
\* covered by an order; the dispatch in progress and the batches released for
\* dispatch count as orders here.
C29_AtMostOneOrderPerTrade ==
    /\ \A id \in Ids :
          /\ Cardinality(Covering(id)) <= 1
          /\ InFlight(id) => Covering(id) = {}
          /\ store[id].bot => Covering(id) = {} /\ ~InFlight(id) /\ ~InReady(id)
          /\ InReady(id) => /\ Covering(id) = {}
                            /\ ~InFlight(id)
                            /\ Cardinality({a \in 1..Len(ready) : id \in Range(ready[a].trades)}) = 1
    /\ \A k, l \in 1..Len(orders) :
          (orders[k].kind = "single" /\ orders[l].kind = "agg") =>
              orders[k].first \notin Range(orders[l].trades)

\* one trade was dispatched as a singleton, a batch with another trade was
\* dispatched later, and the batch trade had been read again on a later tick
C29_Witness ==
    /\ \E k, l \in 1..Len(orders) :
          /\ k < l
          /\ orders[k].kind = "single"
          /\ orders[l].kind = "agg"
          /\ Len(orders[l].trades) >= 2


\* C30: every batch in the buffer has side BUY, is non-empty, and consists only of
\* trades whose own notional is strictly below the floor; a trade of another side,
\* or of a notional at or above the floor, is never a constituent of a buffered batch.
C30_BufferHoldsSmallBuysOnly ==
    /\ \A i \in 1..Len(buffer) :
          /\ buffer[i].side = "BUY"
          /\ buffer[i].trades # <<>>
          /\ \A id \in Range(buffer[i].trades) :
                /\ id \in Ids
                /\ store[id].side = "BUY"
                /\ store[id].usdcSize < TRADE_AGGREGATION_MIN_TOTAL_USD
    /\ \A id \in Ids :
          (store[id].side # "BUY" \/ store[id].usdcSize >= TRADE_AGGREGATION_MIN_TOTAL_USD) =>
              ~InBuffer(buffer, id)

\* a batch of small BUY trades is in the buffer after a SELL trade and a BUY trade at
\* the floor were handled by the loop
C30_Witness ==
    /\ \E i \in 1..Len(buffer) : Len(buffer[i].trades) >= 2
    /\ \E id \in Ids :
          /\ handed[id] >= 1
          /\ store[id].side # "BUY" \/ store[id].usdcSize >= TRADE_AGGREGATION_MIN_TOTAL_USD


\* the step makes no fetch, no mark and no dispatch, and leaves the buffer alone
NothingDone ==
    /\ store' = store
    /\ buffer' = buffer
    /\ trades' = trades
    /\ ready' = ready
    /\ cur' = cur
    /\ orders' = orders
    /\ markWrites' = markWrites
    /\ handed' = handed
    /\ evals' = evals

\* C31: the stop flag is monotonic and stop_trade_executor changes nothing else:
\* once is_running is false it never becomes true again, the step that clears it
\* leaves the aggregation buffer, the store and everything else unchanged, and a
\* trade_executor started with the flag already cleared goes from its start to the
\* loop test and from there out of the loop, where it stays, without a fetch, a
\* mark or a dispatch.
C31_StopFlagMonotonicAndFramed ==
    [][/\ ~is_running => ~is_running'
       /\ is_running' # is_running =>
             /\ NothingDone
             /\ UNCHANGED <<USER_ADDRESSES, environ, aggEnabled, pc, now>>
       /\ (~is_running /\ pc = "idle" /\ pc' # "idle") => pc' = "top" /\ NothingDone
       /\ (~is_running /\ pc = "top") => pc' = "stopped" /\ NothingDone
       /\ (~is_running /\ pc = "stopped") => pc' = "stopped" /\ NothingDone]_vars

\* trade_executor was started after the stop request and has returned: the store
\* holds an unprocessed trade that was never fetched, marked or dispatched (the
\* clock is still 0 and no trade was handed to a dispatch or to the buffer, so no
\* tick has run)
C31_Witness ==
    /\ ~is_running
    /\ pc = "stopped"
    /\ now = 0
    /\ store # <<>>
    /\ \A id \in Ids : Unprocessed(store[id]) /\ handed[id] = 0 /\ markWrites[id] = 0
    /\ trades = <<>>
    /\ orders = <<>>
    /\ buffer = <<>>

=============================================================================
